---- MODULE Spec2Model ----
(***************************************************************************)
(* Model of crypto-nonce-finder.js: findNonceWithLeadingZeros (the async   *)
(* proof-of-work search loop), the setImmediate checkpoint it yields at,   *)
(* and the process-wide SIGINT handler.                                    *)
(*                                                                         *)
(* Strings are sequences of one-character strings.  JavaScript runs every  *)
(* piece of code to completion: `running` names the invocation that holds  *)
(* the JavaScript thread (0 when the thread is free and the event loop or  *)
(* another caller may run).                                                *)
(***************************************************************************)
EXTENDS Integers, Sequences, FiniteSets

\* ---------------------------------------------------------------- bounds
\* Number of significand bits of the Number type.  A JavaScript Number is an
\* IEEE-754 double with 53 bits; the model keeps the arithmetic and scales
\* the width so that the top of the exact-integer range is reachable.
MantissaBits == 4

\* The progress/yield cadence, the literal 1000000 of line 36, scaled so that
\* several checkpoints lie below the top of the integer range.
ProgressInterval == 3

\* requiredZeros is drawn from -1..MaxSmallZeros and the two values around
\* the digest length.
MaxSmallZeros == 4

\* A search whose counter has stopped advancing loops forever; the model
\* follows it for this many further iterations.
ExtraAttempts == 3

\* ------------------------------------------------------- program constants
\* Length of the hex rendering of a SHA-256 digest: digest('hex'), line 24.
HexLen == 64

Invocations == {1, 2}

Prefixes == { <<>>, <<"a">>, <<"1">> }

RequiredZerosInputs == (-1 .. MaxSmallZeros) \cup {HexLen, HexLen + 1}

\* the concurrent specification draws its requests from a smaller set
ConcPrefixes == { <<>>, <<"a">> }

ConcZerosInputs == {1, 3, HexLen + 1}

RECURSIVE Pow2(_)
Pow2(k) == IF k = 0 THEN 1 ELSE 2 * Pow2(k - 1)

\* 2^53 for a double: the last integer up to which every integer is exact.
MaxSafe == Pow2(MantissaBits)

MaxAttempts == MaxSafe + 1 + ExtraAttempts

\* ---------------------------------------------------------------- strings
DigitChars == <<"0", "1", "2", "3", "4", "5", "6", "7", "8", "9">>

HexChars == <<"0", "1", "2", "3", "4", "5", "6", "7",
              "8", "9", "a", "b", "c", "d", "e", "f">>

\* char code of the characters the model's strings are made of
CharCode(c) ==
  CASE c = "0" -> 48 [] c = "1" -> 49 [] c = "2" -> 50 [] c = "3" -> 51
    [] c = "4" -> 52 [] c = "5" -> 53 [] c = "6" -> 54 [] c = "7" -> 55
    [] c = "8" -> 56 [] c = "9" -> 57 [] c = "a" -> 97 [] c = "b" -> 98
    [] c = "," -> 44

\* Number.prototype.toString() of a non-negative integer below 1e21:
\* decimal digits, no sign, no leading zero, no separator.
RECURSIVE NumberToString(_)
NumberToString(n) ==
  IF n < 10 THEN <<DigitChars[n + 1]>>
  ELSE NumberToString(n \div 10) \o <<DigitChars[(n % 10) + 1]>>

\* three decimal digits, zero padded (one group of toLocaleString)
Group3(n) ==
  <<DigitChars[(n \div 100) + 1], DigitChars[((n \div 10) % 10) + 1],
    DigitChars[(n % 10) + 1]>>

\* Number.prototype.toLocaleString() in the default en-US locale: decimal
\* digits in groups of three separated by commas.
RECURSIVE ToLocaleString(_)
ToLocaleString(n) ==
  IF n < 1000 THEN NumberToString(n)
  ELSE ToLocaleString(n \div 1000) \o <<",">> \o Group3(n % 1000)

\* variant: one "0" too many
RepeatOneMore(count) == [k \in 1 .. count + 1 |-> "0"]

\* String.prototype.repeat of the one-character string "0"; a negative count
\* throws RangeError, which Call models before using this operator.
Repeat(count) == [k \in 1 .. count |-> "0"]

\* variant: the last character of searchString is not compared
StartsWithOffByOne(str, searchString) ==
  /\ Len(searchString) <= Len(str)
  /\ \A k \in 1 .. Len(searchString) - 1 : str[k] = searchString[k]

\* String.prototype.startsWith(searchString) at position 0
StartsWith(str, searchString) ==
  /\ Len(searchString) <= Len(str)
  /\ \A k \in 1 .. Len(searchString) : str[k] = searchString[k]

\* ----------------------------------------------------------------- digest
\* crypto.createHash('sha256').update(text).digest('hex') is a library
\* function: a fixed deterministic map from a text to HexLen lowercase hex
\* characters.  The model uses a small mixing function of the same shape in
\* its place; zero digits are frequent enough for matches to occur among
\* the first nonces.
RECURSIVE Absorb(_, _)
Absorb(text, x) ==
  IF text = <<>> THEN x
  ELSE Absorb(Tail(text), (x * 31 + CharCode(Head(text))) % 32749)

Mix(s) == (s * s + 3 * s + 11) % 32749

HexDigitOf(s) == IF s % 2 = 0 THEN HexChars[1] ELSE HexChars[((s \div 2) % 16) + 1]

RECURSIVE Squeeze(_, _)
Squeeze(s, count) ==
  IF count = 0 THEN <<>>
  ELSE LET t == Mix(s) IN <<HexDigitOf(t)>> \o Squeeze(t, count - 1)

Sha256Hex(text) == Squeeze(Absorb(text, 7), HexLen)

\* ------------------------------------------------------------- arithmetic
\* Rounding of an integer to the nearest Number (round half to even); exact
\* up to MaxSafe, multiples of two from there to 2 * MaxSafe.
RoundToNumber(x) ==
  IF x <= MaxSafe \/ x % 2 = 0 THEN x
  ELSE IF ((x - 1) \div 2) % 2 = 0 THEN x - 1 ELSE x + 1

\* variant: nonce += 2
IncrementByTwo(n) == RoundToNumber(n + 2)

\* nonce++ (line 32): the sum is rounded to a Number
Increment(n) == RoundToNumber(n + 1)

\* variant: the checkpoint is taken one candidate late
AtCheckpointOffByOne(n) == n % ProgressInterval = 1

\* nonce % 1000000 === 0 (line 36)
AtCheckpoint(n) == n % ProgressInterval = 0

\* dataPrefix + nonce.toString() (line 19)
InputData(prefix, n) == prefix \o NumberToString(n)

\* variant: nonce declared at module level, shared by all invocations
CounterSlotShared(i) == 1

\* `let nonce` (line 15) is a local of the call: each invocation has its own
CounterSlot(i) == i

\* variant: the await resumes from a microtask, without a turn of the event
\* loop in which a pending signal would be dispatched
PollPhaseSkipped(pending) == TRUE

\* The event loop dispatches a signal that is already pending in its poll
\* phase, which precedes the check phase where setImmediate callbacks run.
PollPhaseDone(pending) == ~pending

\* ------------------------------------------------------------------ state
VARIABLES
  pc,             \* per invocation: "idle", "loop", "yielded", "returned", "threw"
  dataPrefix,     \* per invocation: argument dataPrefix
  requiredZeros,  \* per invocation: argument requiredZeros
  targetPrefix,   \* per invocation: const targetPrefix
  nonce,          \* per counter slot: let nonce
  result,         \* per invocation: the returned [nonce, hashResult], or <<>>
  stderr,         \* lines written to process.stderr (the text after "Tried ")
  stdout,         \* lines written by the SIGINT handler
  running,        \* invocation holding the JavaScript thread, 0 if none
  immediates,     \* setImmediate callbacks queued for the next check phase
  batch,          \* setImmediate callbacks of the check phase in progress
  sigintPending,  \* a SIGINT was delivered and its handler has not run
  exited,         \* process.exit(1) was called
  hashed,         \* history, per invocation: the nonces hashed, in order
  yields,         \* history, per invocation: number of awaits executed
  earlySigint     \* history, per invocation: SIGINT arrived while the search
                  \* was running and had not yet reached a checkpoint

vars == <<pc, dataPrefix, requiredZeros, targetPrefix, nonce, result, stderr,
          stdout, running, immediates, batch, sigintPending, exited, hashed,
          yields, earlySigint>>

Init ==
  /\ pc = [i \in Invocations |-> "idle"]
  /\ dataPrefix = [i \in Invocations |-> <<>>]
  /\ requiredZeros = [i \in Invocations |-> 0]
  /\ targetPrefix = [i \in Invocations |-> <<>>]
  /\ nonce = [i \in Invocations |-> 0]
  /\ result = [i \in Invocations |-> <<>>]
  /\ stderr = <<>>
  /\ stdout = <<>>
  /\ running = 0
  /\ immediates = <<>>
  /\ batch = <<>>
  /\ sigintPending = FALSE
  /\ exited = FALSE
  /\ hashed = [i \in Invocations |-> <<>>]
  /\ yields = [i \in Invocations |-> 0]
  /\ earlySigint = [i \in Invocations |-> FALSE]

\* ---------------------------------------------------------------- actions
\* findNonceWithLeadingZeros(prefix, zeros) is called (lines 10-15).
\* "0".repeat throws RangeError for a negative count; otherwise the call
\* enters the loop and keeps the thread.
Call(i, prefix, zeros) ==
  /\ ~exited
  /\ running = 0
  /\ pc[i] = "idle"
  /\ dataPrefix' = [dataPrefix EXCEPT ![i] = prefix]
  /\ requiredZeros' = [requiredZeros EXCEPT ![i] = zeros]
  /\ IF zeros < 0
       THEN /\ pc' = [pc EXCEPT ![i] = "threw"]
            /\ UNCHANGED <<targetPrefix, nonce, running>>
       ELSE /\ targetPrefix' = [targetPrefix EXCEPT ![i] = Repeat(zeros)]
            /\ nonce' = [nonce EXCEPT ![CounterSlot(i)] = 0]
            /\ pc' = [pc EXCEPT ![i] = "loop"]
            /\ running' = i
  /\ UNCHANGED <<result, stderr, stdout, immediates, batch, sigintPending,
                 exited, hashed, yields, earlySigint>>

\* One pass through the body of while (true) (lines 17-43): hash the
\* candidate, return on a match, otherwise increment and, at the cadence,
\* write the progress line and await setImmediate.
Iterate(i) ==
  /\ ~exited
  /\ running = i
  /\ pc[i] = "loop"
  /\ Len(hashed[i]) < MaxAttempts
  /\ LET n == nonce[CounterSlot(i)]
         hashResult == Sha256Hex(InputData(dataPrefix[i], n))
         next == Increment(n)
     IN  /\ hashed' = [hashed EXCEPT ![i] = Append(@, n)]
         /\ IF StartsWith(hashResult, targetPrefix[i])
              THEN /\ result' = [result EXCEPT ![i] = <<n, hashResult>>]
                   /\ pc' = [pc EXCEPT ![i] = "returned"]
                   /\ running' = 0
                   /\ UNCHANGED <<nonce, stderr, immediates, yields>>
              ELSE /\ nonce' = [nonce EXCEPT ![CounterSlot(i)] = next]
                   /\ UNCHANGED result
                   /\ IF AtCheckpoint(next)
                        THEN /\ stderr' = Append(stderr, ToLocaleString(next))
                             /\ immediates' = Append(immediates, i)
                             /\ yields' = [yields EXCEPT ![i] = @ + 1]
                             /\ pc' = [pc EXCEPT ![i] = "yielded"]
                             /\ running' = 0
                        ELSE UNCHANGED <<stderr, immediates, yields, pc, running>>
  /\ UNCHANGED <<dataPrefix, requiredZeros, targetPrefix, stdout, batch,
                 sigintPending, exited, earlySigint>>

\* The event loop leaves its poll phase and starts a check phase with the
\* setImmediate callbacks queued so far.
\* (Searches are started from the script's top level, as main() is, or from
\* a continuation of an earlier search, so a poll phase precedes it.)
CheckPhase ==
  /\ ~exited
  /\ running = 0
  /\ batch = <<>>
  /\ immediates # <<>>
  /\ PollPhaseDone(sigintPending)
  /\ batch' = immediates
  /\ immediates' = <<>>
  /\ UNCHANGED <<pc, dataPrefix, requiredZeros, targetPrefix, nonce, result,
                 stderr, stdout, running, sigintPending, exited, hashed,
                 yields, earlySigint>>

\* The setImmediate callback (line 41) resolves the awaited promise: the
\* invocation continues after the await, at the top of the loop.
RunImmediate ==
  /\ ~exited
  /\ running = 0
  /\ batch # <<>>
  /\ pc' = [pc EXCEPT ![Head(batch)] = "loop"]
  /\ running' = Head(batch)
  /\ batch' = Tail(batch)
  /\ UNCHANGED <<dataPrefix, requiredZeros, targetPrefix, nonce, result,
                 stderr, stdout, immediates, sigintPending, exited, hashed,
                 yields, earlySigint>>

\* The user presses Ctrl+C: the operating system delivers SIGINT at any
\* moment, also while JavaScript is running.
Sigint ==
  /\ ~exited
  /\ ~sigintPending
  /\ sigintPending' = TRUE
  /\ earlySigint' = [i \in Invocations |->
                       earlySigint[i] \/ (pc[i] = "loop" /\ yields[i] = 0)]
  /\ UNCHANGED <<pc, dataPrefix, requiredZeros, targetPrefix, nonce, result,
                 stderr, stdout, running, immediates, batch, exited, hashed,
                 yields>>

\* process.on('SIGINT') handler (lines 80-83), run by the event loop's poll
\* phase, that is only while no JavaScript is on the stack.
OnSigint ==
  /\ ~exited
  /\ sigintPending
  /\ running = 0
  /\ batch = <<>>
  /\ stdout' = Append(stdout, "Search interrupted by user.")
  /\ exited' = TRUE
  /\ sigintPending' = FALSE
  /\ UNCHANGED <<pc, dataPrefix, requiredZeros, targetPrefix, nonce, result,
                 stderr, running, immediates, batch, hashed, yields,
                 earlySigint>>

\* One search, as main() starts it, with an interrupt possible at any time.
Next ==
  \/ \E prefix \in Prefixes, zeros \in RequiredZerosInputs : Call(1, prefix, zeros)
  \/ Iterate(1)
  \/ CheckPhase
  \/ RunImmediate
  \/ Sigint
  \/ OnSigint

Spec == Init /\ [][Next]_vars

\* Two searches started by a caller of the exported function.
NextConc ==
  \/ \E i \in Invocations, prefix \in ConcPrefixes, zeros \in ConcZerosInputs :
        Call(i, prefix, zeros)
  \/ \E i \in Invocations : Iterate(i)
  \/ CheckPhase
  \/ RunImmediate
  \/ Sigint
  \/ OnSigint

SpecConc == Init /\ [][NextConc]_vars

\* ------------------------------------------------------------ definitions
\* used by the properties below

\* the first count characters of digest are all "0"
ZeroPrefixed(digest, count) ==
  /\ count <= Len(digest)
  /\ \A k \in 1 .. count : digest[k] = "0"

\* the digest of prefix || decimal(m)
DigestOf(prefix, m) == Sha256Hex(prefix \o NumberToString(m))

\* nonce m satisfies the request
Matches(prefix, zeros, m) == ZeroPrefixed(DigestOf(prefix, m), zeros)

\* brute-force scan: the least matching nonce in from..MaxSafe, or -1
RECURSIVE FirstMatch(_, _, _)
FirstMatch(prefix, zeros, from) ==
  IF from > MaxSafe THEN -1
  ELSE IF Matches(prefix, zeros, from) THEN from
  ELSE FirstMatch(prefix, zeros, from + 1)

ValidRequest(i) == requiredZeros[i] \in 0 .. HexLen

Started(i) == pc[i] # "idle"

\* the sequence <<0, 1, ..., last>>
UpTo(last) == [k \in 1 .. last + 1 |-> k - 1]

\* s is an initial part of t
IsPrefix(s, t) ==
  /\ Len(s) <= Len(t)
  /\ \A k \in 1 .. Len(s) : s[k] = t[k]

\* number of candidates of invocation i that were hashed and did not match
Failed(i) == Len(hashed[i]) - (IF pc[i] = "returned" THEN 1 ELSE 0)

\* ----------------------------------------------------------------- claims

\* C1: for a valid request with a matching nonce in range the call returns
\* as soon as a matching candidate is hashed, never throws, and the pair it
\* returns holds the digest of prefix || decimal(nonce), HexLen characters
\* whose first requiredZeros are "0".
C1_ResultMatches ==
  \A i \in Invocations :
    (Started(i) /\ ValidRequest(i)
       /\ FirstMatch(dataPrefix[i], requiredZeros[i], 0) >= 0) =>
      /\ pc[i] # "threw"
      /\ \A k \in 1 .. Len(hashed[i]) :
           Matches(dataPrefix[i], requiredZeros[i], hashed[i][k]) =>
             pc[i] = "returned" /\ result[i][1] = hashed[i][k]
      /\ pc[i] = "returned" =>
           /\ result[i][2] = DigestOf(dataPrefix[i], result[i][1])
           /\ Len(result[i][2]) = HexLen
           /\ \A k \in 1 .. requiredZeros[i] : result[i][2][k] = "0"

C1_Witness ==
  /\ pc[1] = "returned"
  /\ requiredZeros[1] = 3
  /\ result[1][1] > ProgressInterval

\* C2: minimality: when the call has returned (nonce, digest), no smaller
\* nonce matches, and the candidates hashed were exactly 0, 1, ..., nonce in
\* that order, checkpoints included.
C2_Minimal ==
  \A i \in Invocations :
    pc[i] = "returned" =>
      /\ \A m \in 0 .. result[i][1] - 1 :
           ~Matches(dataPrefix[i], requiredZeros[i], m)
      /\ hashed[i] = UpTo(result[i][1])

C2_Witness ==
  /\ pc[1] = "returned"
  /\ yields[1] >= 2
  /\ result[1][1] > 2 * ProgressInterval

\* C3: a request whose requiredZeros is negative or exceeds HexLen fails
\* before any candidate is hashed and never enters the loop.
C3_InvalidRejected ==
  \A i \in Invocations :
    (Started(i) /\ ~ValidRequest(i)) =>
      pc[i] = "threw" /\ hashed[i] = <<>>

\* C4: the counter keeps advancing while the loop runs: the nonces hashed
\* are strictly increasing, so none is hashed twice.
C4_NeverRehashed ==
  \A i \in Invocations :
    \A j, k \in 1 .. Len(hashed[i]) :
      j < k => hashed[i][j] < hashed[i][k]

C6_ProgressExact ==
  stderr = [k \in 1 .. (Failed(1) \div ProgressInterval) |->
              ToLocaleString(k * ProgressInterval)]

\* C7: two invocations with the same request perform the same run: the
\* candidates one has hashed so far are an initial part of the candidates
\* the other has hashed, and when both have returned they hold the same
\* (nonce, digest) pair, however their checkpoints interleaved.
C7_Deterministic ==
  \A i, j \in Invocations :
    (/\ Started(i)
     /\ Started(j)
     /\ dataPrefix[i] = dataPrefix[j]
     /\ requiredZeros[i] = requiredZeros[j]) =>
      /\ IsPrefix(hashed[i], hashed[j]) \/ IsPrefix(hashed[j], hashed[i])
      /\ (pc[i] = "returned" /\ pc[j] = "returned") => result[i] = result[j]

C7_Witness ==
  /\ pc[1] = "returned"
  /\ pc[2] = "returned"
  /\ dataPrefix[1] = dataPrefix[2]
  /\ requiredZeros[1] = requiredZeros[2]
  /\ yields[1] >= 1
  /\ yields[2] >= 1

\* C8: concurrent invocations share no state: a counter changes only in a
\* step of its own invocation (its call or one of its iterations), the
\* target prefix is the invocation's own, and a returned result is the one
\* the brute-force scan of that request alone gives.
C8_Independent ==
  [][\A i \in Invocations :
       /\ nonce'[i] # nonce[i] =>
            \/ hashed'[i] # hashed[i]
            \/ pc[i] = "idle" /\ pc'[i] = "loop"
       /\ pc'[i] \in {"loop", "yielded", "returned"} =>
            targetPrefix'[i] = [k \in 1 .. requiredZeros'[i] |-> "0"]
       /\ pc'[i] = "returned" =>
            /\ result'[i][1] = FirstMatch(dataPrefix'[i], requiredZeros'[i], 0)
            /\ result'[i][2] = DigestOf(dataPrefix'[i], result'[i][1])]_vars

C8_Witness ==
  /\ pc[1] = "returned"
  /\ pc[2] = "yielded"
  /\ dataPrefix[1] # dataPrefix[2]
  /\ requiredZeros[1] # requiredZeros[2]
  /\ yields[1] >= 1
  /\ nonce[2] > result[1][1]

\* C9: a request with requiredZeros = 0 returns nonce 0 with the digest of
\* prefix || "0" after hashing one candidate; the counter is never
\* incremented, nothing is written and the call never yields.
C9_ZeroReturnsAtOnce ==
  \A i \in Invocations :
    (Started(i) /\ requiredZeros[i] = 0) =>
      /\ pc[i] \in {"loop", "returned"}
      /\ nonce[i] = 0
      /\ yields[i] = 0
      /\ stderr = <<>>
      /\ pc[i] = "loop" => hashed[i] = <<>>
      /\ pc[i] = "returned" =>
           /\ hashed[i] = <<0>>
           /\ result[i] = <<0, Sha256Hex(dataPrefix[i] \o <<"0">>)>>

C9_Witness ==
  /\ pc[1] = "returned"
  /\ requiredZeros[1] = 0
  /\ dataPrefix[1] # <<>>
  /\ sigintPending

\* C10: an invocation is suspended only at a checkpoint, with its counter
\* at a positive multiple of the cadence; whenever the thread is free for
\* the interrupt handler or another invocation, and whenever the process
\* has exited, no invocation is in the middle of its loop.
C10_SuspendsOnlyAtCheckpoint ==
  \A i \in Invocations :
    /\ pc[i] = "yielded" =>
         /\ nonce[i] > 0
         /\ nonce[i] % ProgressInterval = 0
         /\ yields[i] >= 1
    /\ pc[i] = "loop" => running = i /\ ~exited
    /\ running # i => pc[i] \in {"idle", "yielded", "returned", "threw"}

C10_Witness ==
  /\ pc[1] = "yielded"
  /\ pc[2] = "loop"
  /\ running = 2
  /\ sigintPending
  /\ nonce[1] >= 2 * ProgressInterval
  /\ hashed[2] # <<>>

====
